---------------------------- MODULE Spec2Model ----------------------------
(***************************************************************************)
(* Reading dashboard (src/app.py): the Marimekko aggregation and layout,   *)
(* and the two Dash callbacks update_table and update_marimekko, together  *)
(* with the browser events that trigger them.                              *)
(*                                                                         *)
(* Proportions are exact fractions [num, den]; a fraction with den = 0 is  *)
(* the float NaN that pandas produces for 0/0.  A month key "2025-MM" is   *)
(* represented by the month number MM, and a date by <<month, day>>.       *)
(*                                                                         *)
(* An event and the callbacks that have the changed property as Input form *)
(* one step: the two callbacks write different outputs and neither reads   *)
(* an output of the other, so the order in which Dash runs them does not   *)
(* show in the state they leave.                                           *)
(***************************************************************************)
EXTENDS Integers, Sequences, FiniteSets, TLC

\* ---- bounds of the explored inputs ------------------------------------
MaxRecords == 2
MaxPageSteps == 2

\* ---- program constants -------------------------------------------------
SliderStep == 10

\* values of the loaded rows that the exploration draws from
DataMonths == {1, 2}
DataRatings == {0, 5}
DataPages == {k * SliderStep : k \in 0..MaxPageSteps}

\* Python None; an optional value is a sequence of at most one element
None == <<>>
\* np.nan in the integer-valued column "My Rating"
NaN == -1

\* ---- fractions (floats of the layout) ----------------------------------
Frac(n, d) == [num |-> n, den |-> d]

FracAdd(a, b) ==
    IF a.den = b.den
    THEN Frac(a.num + b.num, a.den)
    ELSE Frac(a.num * b.den + b.num * a.den, a.den * b.den)

FracHalf(a) == Frac(a.num, 2 * a.den)

\* float equality: NaN is equal to nothing
FracEq(a, b) == a.den # 0 /\ b.den # 0 /\ a.num * b.den = b.num * a.den

\* ---- sequence helpers ---------------------------------------------------
Range(s) == {s[i] : i \in 1..Len(s)}

RECURSIVE SumSeq(_)
SumSeq(s) == IF s = <<>> THEN 0 ELSE Head(s) + SumSeq(Tail(s))

RECURSIVE SortAsc(_)
\* the integers of the finite set S in ascending order (groupby sorts its keys)
SortAsc(S) ==
    IF S = {} THEN <<>>
    ELSE LET m == CHOOSE x \in S : \A y \in S : x <= y
         IN  <<m>> \o SortAsc(S \ {m})

DateLess(a, b) == a[1] < b[1] \/ (a[1] = b[1] /\ a[2] < b[2])

MinDate(S) == CHOOSE d \in S : \A e \in S : e = d \/ DateLess(d, e)

\* ---- rating labels ------------------------------------------------------
rating_order == <<"Unrated", "1*", "2*", "3*", "4*", "5*">>

\* f"{int(val)}*" for an integral value
StarLabel == [n \in 0..5 |->
    CASE n = 0 -> "0*" [] n = 1 -> "1*" [] n = 2 -> "2*"
      [] n = 3 -> "3*" [] n = 4 -> "4*" [] n = 5 -> "5*"]

rating_label_from_value(val) ==
    IF val = NaN THEN "Unrated" ELSE StarLabel[val]

\* filtered.loc[filtered["My Rating"] == 0, "My Rating"] = np.nan
NormalizeRating(raw) == IF raw = 0 THEN NaN ELSE raw

\* index of a colour in px.colors.sequential.RdPu (9 colours, -1 is the last)
rating_colors == [l \in Range(rating_order) |->
    CASE l = "Unrated" -> 1 [] l = "1*" -> 2 [] l = "2*" -> 3
      [] l = "3*" -> 5 [] l = "4*" -> 7 [] l = "5*" -> 8]

legend_labels == <<"Unrated", "1*", "2*", "3*", "4*", "5*">>

\* ---- the loaded data frame ----------------------------------------------
\* a row of the CSV export that passed the year and shelf masks; the export
\* lists the books of a month latest first, so row i of n is given day n + 1 - i
RawRows == [month : DataMonths, rating : DataRatings, pages : DataPages]

RawFrames == UNION {[1..n -> RawRows] : n \in 1..MaxRecords}

\* the module-level frame "filtered" with its derived columns
LoadFiltered(raw) ==
    [i \in 1..Len(raw) |->
        LET rt == NormalizeRating(raw[i].rating) IN
        [Title         |-> i,
         Author        |-> i,
         DateAdded     |-> <<raw[i].month, Len(raw) + 1 - i>>,
         MonthRead     |-> raw[i].month,
         MyRating      |-> rt,
         RatingLabel   |-> rating_label_from_value(rt),
         NumberOfPages |-> raw[i].pages]]

PagesOf(df) == {df[i].NumberOfPages : i \in 1..Len(df)}

MinPages(df) == CHOOSE p \in PagesOf(df) : \A q \in PagesOf(df) : p <= q
MaxPages(df) == CHOOSE p \in PagesOf(df) : \A q \in PagesOf(df) : p >= q

\* variant of Between: the upper bound is exclusive (inclusive="left")
Between_LeftInclusive(df, low, high) ==
    SelectSeq(df, LAMBDA r : low <= r.NumberOfPages /\ r.NumberOfPages < high)

\* df[df["Number of Pages"].between(low, high, inclusive="both")]
Between(df, low, high) ==
    SelectSeq(df, LAMBDA r : low <= r.NumberOfPages /\ r.NumberOfPages <= high)

\* dff[["Month Read", "Title", "Author", "My Rating", "Number of Pages"]]
\*     .to_dict("records")
TableRecords(dff) ==
    [i \in 1..Len(dff) |->
        [MonthRead     |-> dff[i].MonthRead,
         Title         |-> dff[i].Title,
         Author        |-> dff[i].Author,
         MyRating      |-> dff[i].MyRating,
         NumberOfPages |-> dff[i].NumberOfPages]]

\* ---- aggregation and layout --------------------------------------------
MonthKeys(df) == {df[i].MonthRead : i \in 1..Len(df)}

RowsOfMonth(df, m) == SelectSeq(df, LAMBDA r : r.MonthRead = m)

RowsOfSegment(df, m, l) ==
    SelectSeq(df, LAMBDA r : r.MonthRead = m /\ r.RatingLabel = l)

PagesSum(df) == SumSeq([i \in 1..Len(df) |-> df[i].NumberOfPages])

\* groupby("Month Read")["Date Added"].min()
FirstDate(df, m) == MinDate({r.DateAdded : r \in Range(RowsOfMonth(df, m))})

RECURSIVE SortByFirstDate(_, _)
\* sort_values("first_date"): the months of S ascending by the date fd[m]
SortByFirstDate(S, fd) ==
    IF S = {} THEN <<>>
    ELSE LET m == CHOOSE x \in S : \A y \in S : y = x \/ DateLess(fd[x], fd[y])
         IN  <<m>> \o SortByFirstDate(S \ {m}, fd)

\* the month keys in the row order of month_totals
MonthOrder(df) ==
    SortByFirstDate(MonthKeys(df), [m \in MonthKeys(df) |-> FirstDate(df, m)])

\* month_totals["month_pages"].sum()
GrandTotalPages(mp) == SumSeq(mp)

\* width_prop.cumsum() at row i
CumWidth(mp, g, i) == Frac(SumSeq(SubSeq(mp, 1, i)), g)

\* month_totals with width_prop, x_start, x_end and x_center
MonthTotals(df) ==
    LET ord == MonthOrder(df)
        mp  == [i \in 1..Len(ord) |-> PagesSum(RowsOfMonth(df, ord[i]))]
        g   == GrandTotalPages(mp)
    IN  [i \in 1..Len(ord) |->
            LET w  == Frac(mp[i], g)
                xs == IF i = 1 THEN Frac(0, 1) ELSE CumWidth(mp, g, i - 1)
                xe == FracAdd(xs, w)
            IN  [MonthRead   |-> ord[i],
                 month_pages |-> mp[i],
                 first_date  |-> FirstDate(df, ord[i]),
                 width_prop  |-> w,
                 x_start     |-> xs,
                 x_end       |-> xe,
                 x_center    |-> FracHalf(FracAdd(xs, xe))]]

\* summarize_books: "Title (Author)" of the group's rows, in frame order
summarize_books(group) ==
    [i \in 1..Len(group) |-> <<group[i].Title, group[i].Author>>]

\* the labels in the order in which groupby sorts them as strings
label_key_order == <<"0*", "1*", "2*", "3*", "4*", "5*", "Unrated">>

\* the keys of groupby(["Month Read", "Rating Label"]): the pairs that have
\* rows, by month and then by label
SegmentKeys(df) ==
    LET ms == SortAsc(MonthKeys(df))
        nl == Len(label_key_order)
        all == [j \in 1..(Len(ms) * nl) |->
                  <<ms[((j - 1) \div nl) + 1], label_key_order[((j - 1) % nl) + 1]>>]
    IN  SelectSeq(all, LAMBDA k : RowsOfSegment(df, k[1], k[2]) # <<>>)

\* the row of month_totals for month m (merge on "Month Read", how="left")
MonthRow(mt, m) == CHOOSE r \in Range(mt) : r.MonthRead = m

\* agg: one row per (month, label) segment with its month's layout and height
Agg(df, mt) ==
    LET keys == SegmentKeys(df)
    IN  [i \in 1..Len(keys) |->
            LET seg == RowsOfSegment(df, keys[i][1], keys[i][2])
                mr  == MonthRow(mt, keys[i][1])
            IN  [MonthRead   |-> keys[i][1],
                 RatingLabel |-> keys[i][2],
                 pages       |-> PagesSum(seg),
                 Books       |-> summarize_books(seg),
                 month_pages |-> mr.month_pages,
                 x_center    |-> mr.x_center,
                 width_prop  |-> mr.width_prop,
                 height      |-> Frac(PagesSum(seg), mr.month_pages)]]

\* ---- the scene ----------------------------------------------------------
\* variant of Trace: a label without data gets a dummy bar that is kept out of
\* the legend
Trace_HiddenPlaceholder(agg, l) ==
    LET sub == SelectSeq(agg, LAMBDA r : r.RatingLabel = l)
    IN  IF sub = <<>>
        THEN [name         |-> l,
              marker_color |-> rating_colors[l],
              showlegend   |-> FALSE,
              hoverinfo    |-> "skip",
              x            |-> <<None>>,
              y            |-> <<None>>,
              width        |-> <<Frac(0, 1)>>,
              customdata   |-> <<>>]
        ELSE [name         |-> l,
              marker_color |-> rating_colors[l],
              showlegend   |-> TRUE,
              hoverinfo    |-> "hovertemplate",
              x            |-> [i \in 1..Len(sub) |-> sub[i].x_center],
              y            |-> [i \in 1..Len(sub) |-> sub[i].height],
              width        |-> [i \in 1..Len(sub) |-> sub[i].width_prop],
              customdata   |-> [i \in 1..Len(sub) |->
                                  <<sub[i].MonthRead, sub[i].pages,
                                    sub[i].month_pages, sub[i].Books,
                                    sub[i].RatingLabel>>]]

\* the bar trace of rating label l (fig.add_bar), from sub = agg[label == l]
Trace(agg, l) ==
    LET sub == SelectSeq(agg, LAMBDA r : r.RatingLabel = l)
    IN  IF sub = <<>>
        THEN [name         |-> l,
              marker_color |-> rating_colors[l],
              showlegend   |-> TRUE,
              hoverinfo    |-> "skip",
              x            |-> <<None>>,
              y            |-> <<None>>,
              width        |-> <<Frac(0, 1)>>,
              customdata   |-> <<>>]
        ELSE [name         |-> l,
              marker_color |-> rating_colors[l],
              showlegend   |-> TRUE,
              hoverinfo    |-> "hovertemplate",
              x            |-> [i \in 1..Len(sub) |-> sub[i].x_center],
              y            |-> [i \in 1..Len(sub) |-> sub[i].height],
              width        |-> [i \in 1..Len(sub) |-> sub[i].width_prop],
              customdata   |-> [i \in 1..Len(sub) |->
                                  <<sub[i].MonthRead, sub[i].pages,
                                    sub[i].month_pages, sub[i].Books,
                                    sub[i].RatingLabel>>]]

\* the stacked-column figure of a non-empty frame
MarimekkoFigure(df) ==
    LET mt  == MonthTotals(df)
        agg == Agg(df, mt)
    IN  [data          |-> [k \in 1..Len(legend_labels) |-> Trace(agg, legend_labels[k])],
         title         |-> [text |-> "How My 2025 Reading Time Is Distributed", args |-> <<>>],
         xaxis_visible |-> TRUE,
         yaxis_visible |-> TRUE,
         tickvals      |-> [i \in 1..Len(mt) |-> mt[i].x_center],
         ticktext      |-> [i \in 1..Len(mt) |-> mt[i].MonthRead],
         traceorder    |-> "reversed"]

\* go.Figure() with only a message
EmptyFigure(low, high) ==
    [data          |-> <<>>,
     title         |-> [text |-> "No books between", args |-> <<low, high>>],
     xaxis_visible |-> FALSE,
     yaxis_visible |-> FALSE,
     tickvals      |-> <<>>,
     ticktext      |-> <<>>,
     traceorder    |-> "normal"]

\* ---- state --------------------------------------------------------------
VARIABLES
    filtered,         \* the module-level frame, read-only after load
    pages_slider,     \* "pages-slider".value = <<low, high>>
    clickData,        \* "reading-marimekko".clickData: None or <<point>>
    selection_store,  \* "selection-store".data: None or <<[month, rating]>>
    books_table,      \* "books-table".data
    figure,           \* "reading-marimekko".figure
    triggered,        \* the input whose change ran the callbacks last
    arg_stored_selection  \* update_table's argument stored_selection at its last call

vars == <<filtered, pages_slider, clickData, selection_store, books_table,
          figure, triggered, arg_stored_selection>>

min_pages == MinPages(filtered)
max_pages == MaxPages(filtered)

\* v is a position of the range slider
OnSlider(v) ==
    /\ min_pages <= v /\ v <= max_pages
    /\ (v - min_pages) % SliderStep = 0

\* the positions of the range slider
SliderValues == {v \in min_pages..max_pages : OnSlider(v)}

\* ---- the callbacks -------------------------------------------------------
\* variant of update_table: a click on the selected block keeps it selected
update_table_NoToggle(cd, page_range, stored_selection) ==
    LET df_page == Between(filtered, page_range[1], page_range[2])
    IN  IF cd = None
        THEN <<TableRecords(df_page), None>>
        ELSE LET month             == cd[1].customdata[1]
                 rating_label      == cd[1].customdata[5]
                 current_selection == <<[month |-> month, rating |-> rating_label]>>
             IN  IF stored_selection = current_selection
                 THEN <<TableRecords(df_page), stored_selection>>
                 ELSE <<TableRecords(RowsOfSegment(df_page, month, rating_label)),
                        current_selection>>

\* variant of update_table: any click while a block is selected clears the
\* selection first
update_table_ClearFirst(cd, page_range, stored_selection) ==
    LET df_page == Between(filtered, page_range[1], page_range[2])
    IN  IF cd = None
        THEN <<TableRecords(df_page), None>>
        ELSE LET month             == cd[1].customdata[1]
                 rating_label      == cd[1].customdata[5]
                 current_selection == <<[month |-> month, rating |-> rating_label]>>
             IN  IF stored_selection # None
                 THEN <<TableRecords(df_page), None>>
                 ELSE <<TableRecords(RowsOfSegment(df_page, month, rating_label)),
                        current_selection>>

\* variant of update_table: the block filter compares the month only
update_table_MonthOnly(cd, page_range, stored_selection) ==
    LET df_page == Between(filtered, page_range[1], page_range[2])
    IN  IF cd = None
        THEN <<TableRecords(df_page), None>>
        ELSE LET month             == cd[1].customdata[1]
                 rating_label      == cd[1].customdata[5]
                 current_selection == <<[month |-> month, rating |-> rating_label]>>
             IN  IF stored_selection = current_selection
                 THEN <<TableRecords(df_page), None>>
                 ELSE <<TableRecords(RowsOfMonth(df_page, month)), current_selection>>

\* update_table(clickData, page_range, stored_selection): the pair of outputs
\* <<books-table.data, selection-store.data>>
update_table(cd, page_range, stored_selection) ==
    LET low     == page_range[1]
        high    == page_range[2]
        df_page == Between(filtered, low, high)
    IN  IF cd = None
        THEN <<TableRecords(df_page), None>>
        ELSE LET point             == cd[1]
                 month             == point.customdata[1]
                 rating_label      == point.customdata[5]
                 current_selection == <<[month |-> month, rating |-> rating_label]>>
             IN  IF stored_selection = current_selection
                 THEN <<TableRecords(df_page), None>>
                 ELSE <<TableRecords(RowsOfSegment(df_page, month, rating_label)),
                        current_selection>>

\* variant of update_marimekko: no early return for an empty range
update_marimekko_NoEmptyCheck(page_range) ==
    MarimekkoFigure(Between(filtered, page_range[1], page_range[2]))

\* update_marimekko(page_range): the output reading-marimekko.figure
update_marimekko(page_range) ==
    LET low      == page_range[1]
        high     == page_range[2]
        df_range == Between(filtered, low, high)
    IN  IF df_range = <<>>
        THEN EmptyFigure(low, high)
        ELSE MarimekkoFigure(df_range)

\* ---- initial state: the layout as built at import -------------------------
Init ==
    /\ filtered \in {LoadFiltered(raw) : raw \in RawFrames}
    /\ pages_slider = <<min_pages, max_pages>>
    /\ clickData = None
    /\ selection_store = None
    /\ books_table = TableRecords(filtered)
    /\ figure = MarimekkoFigure(filtered)
    /\ triggered = "none"
    /\ arg_stored_selection = None

\* ---- events: each runs the callbacks that have the changed input ----------
\* the page is opened: both callbacks run once with the layout's values
PageLoad ==
    /\ triggered = "none"
    /\ LET out == update_table(clickData, pages_slider, selection_store)
       IN  /\ books_table' = out[1]
           /\ selection_store' = out[2]
    /\ arg_stored_selection' = selection_store
    /\ figure' = update_marimekko(pages_slider)
    /\ triggered' = "initial"
    /\ UNCHANGED <<filtered, pages_slider, clickData>>

\* the points of the current figure that have an extent to click on
PointsOfTrace(t) ==
    IF t.hoverinfo = "skip" THEN {}
    ELSE {[customdata |-> t.customdata[i]] :
            i \in {j \in 1..Len(t.customdata) :
                      /\ t.y[j].den # 0 /\ t.y[j].num > 0
                      /\ t.width[j].den # 0 /\ t.width[j].num > 0}}

ClickablePoints == UNION {PointsOfTrace(figure.data[k]) : k \in DOMAIN figure.data}

\* a block of the chart is clicked: clickData is an input of update_table only
SegmentClicked(point) ==
    /\ triggered # "none"
    /\ point \in ClickablePoints
    /\ clickData' = <<point>>
    /\ LET out == update_table(<<point>>, pages_slider, selection_store)
       IN  /\ books_table' = out[1]
           /\ selection_store' = out[2]
    /\ arg_stored_selection' = selection_store
    /\ triggered' = "clickData"
    /\ UNCHANGED <<filtered, pages_slider, figure>>

\* variant of RangeChanged: the slider is an input of update_table only
RangeChanged_TableOnly(low, high) ==
    /\ triggered # "none"
    /\ low <= high
    /\ <<low, high>> # pages_slider
    /\ OnSlider(low) /\ OnSlider(high)
    /\ pages_slider' = <<low, high>>
    /\ LET out == update_table(clickData, <<low, high>>, selection_store)
       IN  /\ books_table' = out[1]
           /\ selection_store' = out[2]
    /\ arg_stored_selection' = selection_store
    /\ triggered' = "pages-slider"
    /\ UNCHANGED <<filtered, clickData, figure>>

\* the slider is moved: its value is an input of both callbacks, which run with
\* the graph's clickData and the stored selection as they are
RangeChanged(low, high) ==
    /\ triggered # "none"
    /\ low <= high
    /\ <<low, high>> # pages_slider
    /\ OnSlider(low) /\ OnSlider(high)
    /\ pages_slider' = <<low, high>>
    /\ LET out == update_table(clickData, <<low, high>>, selection_store)
       IN  /\ books_table' = out[1]
           /\ selection_store' = out[2]
    /\ arg_stored_selection' = selection_store
    /\ figure' = update_marimekko(<<low, high>>)
    /\ triggered' = "pages-slider"
    /\ UNCHANGED <<filtered, clickData>>

Next ==
    \/ PageLoad
    \/ \E point \in ClickablePoints : SegmentClicked(point)
    \/ \E low \in SliderValues, high \in SliderValues : RangeChanged(low, high)

Spec == Init /\ [][Next]_vars

\* ---- the callbacks called with any pair of integers ------------------------
\* page ranges a request can carry: in and out of [min_pages, max_pages], on and
\* off the slider's steps, low above high included
ProbeValues == {k * (SliderStep \div 2) : k \in (0 - 2)..(2 * (MaxPageSteps + 1))}

\* a callback request with page_range = [low, high] reaches both callbacks of
\* the loaded page; they keep no state of earlier ranges, so one request per
\* page shows what the filter does with the pair
CallbackRequest(low, high) ==
    /\ triggered = "initial"
    /\ pages_slider' = <<low, high>>
    /\ LET out == update_table(clickData, <<low, high>>, selection_store)
       IN  /\ books_table' = out[1]
           /\ selection_store' = out[2]
    /\ arg_stored_selection' = selection_store
    /\ figure' = update_marimekko(<<low, high>>)
    /\ triggered' = "request"
    /\ UNCHANGED <<filtered, clickData>>

FilterNext ==
    \/ PageLoad
    \/ \E low \in ProbeValues, high \in ProbeValues : CallbackRequest(low, high)

FilterSpec == Init /\ [][FilterNext]_vars

\* ---- vocabulary of the properties ----------------------------------------
\* the records inside the current page range
RangeRows == Between(filtered, pages_slider[1], pages_slider[2])

\* the (month, rating) pair carried by the last click
ClickedPair ==
    [month |-> clickData[1].customdata[1], rating |-> clickData[1].customdata[5]]

\* the callbacks have handled the last event, a change of the input src
Handled(src) == triggered = src

\* the records of the pair sel inside the current page range
SegmentRows(sel) == RowsOfSegment(RangeRows, sel.month, sel.rating)

\* C1: a range change never changes the selection: once update_table has
\* handled a RangeChanged event, the stored selection equals the selection
\* it was called with.
C1_RangeChangeKeepsSelection ==
    Handled("pages-slider") => selection_store = arg_stored_selection

\* C2: stale selection: when update_table has handled a range change in state
\* Selected(m, r), the selection is still Selected(m, r) and the table holds
\* exactly the records of (m, r) inside the new range: none when the range
\* excludes the pair, the matching ones again when the range is widened back.
C2_StaleSelectionPreserved ==
    (Handled("pages-slider") /\ arg_stored_selection # None) =>
        /\ selection_store = arg_stored_selection
        /\ books_table = TableRecords(SegmentRows(arg_stored_selection[1]))
        /\ (SegmentRows(arg_stored_selection[1]) = <<>> => books_table = <<>>)

\* C3: toggle idempotence: a click handled in state Unselected selects the
\* clicked pair and restricts the table to it; the next click on the same pair
\* (handled in state Selected(pair)) returns to Unselected with exactly the
\* range-filtered table.
C3_ToggleIdempotence ==
    Handled("clickData") =>
        /\ arg_stored_selection = None =>
              /\ selection_store = <<ClickedPair>>
              /\ books_table = TableRecords(SegmentRows(ClickedPair))
        /\ arg_stored_selection = <<ClickedPair>> =>
              /\ selection_store = None
              /\ books_table = TableRecords(RangeRows)

\* the second of two clicks on the same pair has been handled, and the table it
\* reverted to holds more than the pair's records
C3_Witness ==
    /\ Handled("clickData")
    /\ arg_stored_selection = <<ClickedPair>>
    /\ selection_store = None
    /\ Len(books_table) > Len(SegmentRows(ClickedPair))
    /\ SegmentRows(ClickedPair) # <<>>

\* C4: a click on a pair different from the selection update_table is called
\* with (Unselected or another pair) leaves that pair selected when the call
\* returns, with no state in between; the store never holds more than one pair.
C4_ClickSelectsDirectly ==
    /\ Len(selection_store) <= 1
    /\ (Handled("clickData") /\ arg_stored_selection # <<ClickedPair>>)
          => selection_store = <<ClickedPair>>

\* a click has replaced one selected pair by a different one
C4_Witness ==
    /\ Handled("clickData")
    /\ arg_stored_selection # None
    /\ arg_stored_selection # <<ClickedPair>>
    /\ selection_store = <<ClickedPair>>

\* C5: effective filter: whenever update_table has run for the last event, the
\* table holds the range-filtered records, restricted to the selected pair when
\* the stored selection is Selected(m, r).
C5_EffectiveFilter ==
    books_table = IF selection_store = None
                  THEN TableRecords(RangeRows)
                  ELSE TableRecords(SegmentRows(selection_store[1]))

\* after range changes and clicks, a pair is selected and the table shows a
\* non-empty proper part of the range-filtered records
C5_Witness ==
    /\ Handled("pages-slider")
    /\ selection_store # None
    /\ books_table # <<>>
    /\ Len(books_table) < Len(RangeRows)

\* C6: the scene depends on the page range only: a click (select, toggle off,
\* re-select) leaves the figure and the range unchanged, and once a range
\* change has been handled the figure is the one of the new range and the
\* table holds rows of that same range.
C6_SceneFollowsRangeOnly ==
    /\ [][triggered' = "clickData" =>
            (figure' = figure /\ pages_slider' = pages_slider)]_vars
    /\ [](triggered # "none" => figure = update_marimekko(pages_slider))
    /\ [](Handled("pages-slider") =>
            Range(books_table) \subseteq Range(TableRecords(RangeRows)))

\* a click has changed the selection and the table under a narrowed range while
\* the figure is still the one of that range
C6_Witness ==
    /\ Handled("clickData")
    /\ selection_store # None
    /\ pages_slider # <<min_pages, max_pages>>
    /\ figure.data # <<>>
    /\ books_table # <<>>

RECURSIVE FracSum(_)
FracSum(s) == IF s = <<>> THEN Frac(0, 1) ELSE FracAdd(Head(s), FracSum(Tail(s)))

\* the height of trace t's segment in month m, 0 when t has no segment there
HeightAt(t, m) ==
    IF t.hoverinfo = "skip" \/ ~(\E i \in DOMAIN t.customdata : t.customdata[i][1] = m)
    THEN Frac(0, 1)
    ELSE t.y[CHOOSE i \in DOMAIN t.customdata : t.customdata[i][1] = m]

\* C7: in every figure update_marimekko builds from a non-empty filtered set,
\* for every month on the axis the heights of the month's segments are well
\* defined and sum to 1.
C7_HeightsSumToOne ==
    (triggered # "none" /\ figure.data # <<>>) =>
        \A j \in DOMAIN figure.ticktext :
            FracEq(FracSum([k \in DOMAIN figure.data |->
                              HeightAt(figure.data[k], figure.ticktext[j])]),
                   Frac(1, 1))

\* C8: for every non-empty filtered set the month widths sum to 1 and the
\* columns, in ascending firstDate order, partition [0, 1]: the first starts at
\* 0, each ends where the next starts, the last ends at 1; the axis ticks of
\* the figure sit at the columns' centres.
C8_WidthsPartitionUnit ==
    (triggered # "none" /\ RangeRows # <<>>) =>
        LET mt == MonthTotals(RangeRows)
            n  == Len(mt)
        IN  /\ FracEq(FracSum([i \in 1..n |-> mt[i].width_prop]), Frac(1, 1))
            /\ \A i \in 1..n, j \in 1..n :
                  i < j => DateLess(mt[i].first_date, mt[j].first_date)
            /\ FracEq(mt[1].x_start, Frac(0, 1))
            /\ \A i \in 1..(n - 1) : FracEq(mt[i].x_end, mt[i + 1].x_start)
            /\ FracEq(mt[n].x_end, Frac(1, 1))
            /\ figure.tickvals = [i \in 1..n |-> mt[i].x_center]

\* C9: when the page range contains no record, the figure produced for it is
\* the placeholder (no trace, both axes hidden) and the table produced for it
\* is empty, whatever the stored selection and the last click.
C9_EmptyRange ==
    RangeRows = <<>> =>
        /\ figure.data = <<>>
        /\ ~figure.xaxis_visible
        /\ ~figure.yaxis_visible
        /\ books_table = <<>>

\* both callbacks have handled an empty range while a click payload is present
\* and a pair is selected
C9_Witness ==
    /\ RangeRows = <<>>
    /\ Handled("pages-slider")
    /\ clickData # None
    /\ selection_store # None

\* the legend of the figure: one entry per rating bucket with its colour, a
\* bucket without data drawn as a zero-width placeholder
LegendComplete ==
    /\ Len(figure.data) = Len(legend_labels)
    /\ \A k \in DOMAIN figure.data :
          /\ figure.data[k].name = legend_labels[k]
          /\ figure.data[k].showlegend
          /\ figure.data[k].marker_color = rating_colors[legend_labels[k]]
          /\ (\A i \in DOMAIN RangeRows : RangeRows[i].RatingLabel # legend_labels[k])
                => /\ figure.data[k].hoverinfo = "skip"
                   /\ Len(figure.data[k].width) = 1
                   /\ figure.data[k].width[1].num = 0

\* C10 as stated: the figure of every page range, empty ranges included, shows
\* all six rating buckets in its legend.
C10_LegendInEveryRange ==
    triggered # "none" => LegendComplete

\* C10 amended: the figure of every page range that contains a record shows
\* all six rating buckets in its legend, buckets without data as zero-width
\* placeholders.
C10_LegendInNonEmptyRange ==
    (triggered # "none" /\ RangeRows # <<>>) => LegendComplete

\* a narrowed, non-empty range whose figure has placeholder and data traces
C10_Witness ==
    /\ Handled("pages-slider")
    /\ RangeRows # <<>>
    /\ Len(RangeRows) < Len(filtered)
    /\ \E k \in DOMAIN figure.data : figure.data[k].hoverinfo = "skip"
    /\ \E k \in DOMAIN figure.data : figure.data[k].hoverinfo # "skip"

\* the rows of the loaded frame, by Title, whose pages lie in [low, high]
TitlesInside(low, high) ==
    {filtered[i].Title : i \in {j \in DOMAIN filtered :
        low <= filtered[j].NumberOfPages /\ filtered[j].NumberOfPages <= high}}

\* the books listed in the segments of the figure, by Title
FigureTitles ==
    UNION {UNION {{b[1] : b \in Range(figure.data[k].customdata[i][4])} :
                    i \in DOMAIN figure.data[k].customdata} :
             k \in DOMAIN figure.data}

\* C11: record filter (FilterSpec): for every pair of integers the table of
\* update_table and the figure of update_marimekko are built from exactly the
\* records with low <= pages <= high, both bounds inclusive, in frame order;
\* when no record lies in between (pair outside [min_pages, max_pages], in a
\* gap, or low above high) both results are the empty ones.
C11_FilterInclusive ==
    Handled("request") =>
        LET inside == TitlesInside(pages_slider[1], pages_slider[2])
        IN  /\ {books_table[j].Title : j \in DOMAIN books_table} = inside
            /\ Len(books_table) = Cardinality(inside)
            /\ \A j \in DOMAIN books_table, k \in DOMAIN books_table :
                  j < k => books_table[j].Title < books_table[k].Title
            /\ FigureTitles = inside
            /\ inside = {} => (books_table = <<>> /\ figure.data = <<>>)

\* a request with a pair entirely outside the dataset's page domain has been
\* answered with the empty table and the empty figure
C11_Witness ==
    /\ Handled("request")
    /\ pages_slider[1] <= pages_slider[2]
    /\ (pages_slider[2] < min_pages \/ pages_slider[1] > max_pages)
    /\ books_table = <<>>
    /\ figure.data = <<>>

\* C12: update_marimekko never divides the month totals by a grand total of 0:
\* whenever the pages of the records in the range sum to 0, the figure it
\* returned is the empty-range figure and no proportions were computed.
C12_NoLayoutOnZeroTotal ==
    (triggered # "none" /\ PagesSum(RangeRows) = 0) =>
        figure = EmptyFigure(pages_slider[1], pages_slider[2])

=============================================================================
